---- MODULE Spec2Model ----
(***************************************************************************)
(* VideoMixer web front end: the job-progress tracker of App.vue           *)
(* (startTask, connectWs, resetTask, onBeforeUnmount) together with the    *)
(* derived views of ProgressPanel.vue (videoPercent, videoList and the     *)
(* watchers that parse the ffmpeg log), and the uploads of                  *)
(* FileUploader.vue (category inference, doUpload, uploadSingleFile).      *)
(* The other components keep their own state: DataPanel.vue (edits and     *)
(* saves of a row), StrategyConfig.vue (save), EnvCheck (runCheck,         *)
(* installFfmpeg), the header (runGitPull) and the per-category            *)
(* configuration of part_004.                                              *)
(*                                                                         *)
(* Times are kept in hundredths of a second so that "12.5" and "6.25" are  *)
(* integers (1250, 625).                                                   *)
(***************************************************************************)
EXTENDS Integers, Sequences, FiniteSets, TLC

----------------------------------------------------------------------------
(* Bounds of the model *)

MaxCount == 1       \* largest completed / failed counter a message carries
MaxResults == 2     \* longest file-result history built by file_done events
MaxResync == 1      \* longest file_results list carried by a state resync
MaxLog == 2         \* longest log buffer explored by the tracker specifications
MaxSockets == 3     \* sockets ever created during one run
MaxCalls == 2       \* startTask invocations awaiting their response at once
MaxStamp == 205     \* last time stamp on a log line, in hundredths of a second
MaxOutputs == 2     \* largest number of output variants asked for
MaxBatches == 2     \* doUpload calls made during one run
MaxName == 2        \* longest folder name tried as a category, in characters
MaxSaves == 2       \* save requests of a component in flight at once
MaxChecks == 2      \* runCheck calls awaiting their response at once
MaxInstalls == 2    \* install sockets open at once
MaxAsked == 11      \* largest count typed into the output-count input

----------------------------------------------------------------------------
(* JavaScript values *)

\* The value read from a property the message does not have.
Undefined == -1
\* undefined + n, n + undefined
NaN == -2
UndefinedStr == "undefined"
\* taskId = null (App.vue:116, 326)
Null == "null"

\* a + b on numbers that may be undefined
JsAdd(a, b) == IF a < 0 \/ b < 0 THEN NaN ELSE a + b
\* a < b : every comparison with NaN is false
JsLess(a, b) == a >= 0 /\ b >= 0 /\ a < b
\* !!x for the strings of the model
Truthy(s) == s \notin {"", Null, UndefinedStr}
\* Math.round(n / d * 100) for n >= 0, d > 0
RoundPct(n, d) == (200 * n + d) \div (2 * d)
Min(a, b) == IF a < b THEN a ELSE b
Max(a, b) == IF a > b THEN a ELSE b

----------------------------------------------------------------------------
(* State *)

VARIABLES
    mounted,        \* the App component is mounted (onBeforeUnmount has not run)
    categories,     \* App.vue:107  categories (result of the last scan)
    globalOutputs,  \* App.vue:114  output variants, each [mode, preset]
    taskId,         \* App.vue:116
    taskStatus,     \* App.vue:117
    completed,      \* App.vue:118
    failed,         \* App.vue:119
    total,          \* App.vue:120
    currentFile,    \* App.vue:121
    fileResults,    \* App.vue:122
    elapsed,        \* App.vue:123
    logLines,       \* App.vue:124
    allFiles,       \* App.vue:125
    ws,             \* App.vue:127  index of the socket held by `ws`, 0 for null
    sockets,        \* every WebSocket created so far: [id, st]
    timers,         \* pending setTimeout callbacks of ws.onclose: [sock, id, delay]
    calls,          \* startTask invocations suspended at an await: [pc, outputs]
    videoDuration,  \* ProgressPanel.vue:179
    currentTime,    \* ProgressPanel.vue:180
    uploads,        \* FileUploader.vue: the doUpload calls made so far and the
                    \* folder selection being handled: [batches, queue, tree, groups]
    dataPanel,      \* DataPanel.vue: one row of the table, its dirty flag and its saves: [stats, dirty, saves, saved]
    strategyConfig, \* StrategyConfig.vue: the shared config object, the local edits and the saves: [global, local, saves, done]
    phase,          \* App.vue:99  'env-check' or 'main'
    envCheck,       \* EnvCheck.vue: [mounted, checks, installing, output, runs, installs]
    header,         \* Header: [hasUpdate, showPanel, pulling, updateDone, pullSuccess, checking, output, pulls]
    configs,        \* part_004: [strategy, config, edited, global, op] of the per-category configuration
    last            \* the frame ws.onmessage received in the step just taken, if
                    \* it was one: [kind, msg, run, posted]; run counts the
                    \* file_done events processed since the job was submitted
                    \* while nothing else was received (-1 otherwise); posted
                    \* is the body of the video-stats batch request the
                    \* handler sent (NoBatch when it sent none)

\* the state of the components outside the tracker and the uploader
components == <<dataPanel, strategyConfig, phase, envCheck, header, configs>>

\* the state of App.vue and FileUploader.vue
app == <<mounted, categories, globalOutputs, taskId, taskStatus, completed,
         failed, total, currentFile, fileResults, elapsed, logLines, allFiles,
         ws, sockets, timers, calls, videoDuration, currentTime, uploads, last>>

tracker == <<taskStatus, completed, failed, currentFile, fileResults, logLines>>

vars == <<mounted, categories, globalOutputs, taskId, taskStatus, completed,
          failed, total, currentFile, fileResults, elapsed, logLines, allFiles,
          ws, sockets, timers, calls, videoDuration, currentTime, uploads,
          last, dataPanel, strategyConfig, phase, envCheck, header, configs>>

----------------------------------------------------------------------------
(* Values the backend and the user can supply *)

\* setTimeout(..., 2000) in ws.onclose
ReconnectDelay == 2000
\* logLines.length > 200  /  slice(-150)
LogCap == 200
LogKeep == 150
\* the watcher scans the last 5 lines
ScanWindow == 5

TaskIds == {"t1", "t2"}
Statuses == {"running", "completed", "failed", "cancelled"}
Terminal == {"completed", "failed", "cancelled"}

Category(folder, files) == [folder |-> folder, strategy |-> "handwriting", files |-> files]
\* answers of GET /api/upload/{session}/scan
ScanChoices ==
    { <<Category("c", <<"a.mp4", "b.mp4">>)>>,
      <<Category("c", <<"a.mp4">>), Category("d", <<"a.mp4">>)>> }

\* names the backend reports in file_start / result.filename / current_file
FileNames == {"c/a.mp4", "c/b.mp4"}

Result(name, st) == [filename |-> name, status |-> st]
\* the entry pushed when msg.result is absent
NoResult == Result(UndefinedStr, UndefinedStr)
Results == {Result(n, st) : n \in FileNames, st \in {"done", "failed"}}

RECURSIVE SeqsUpTo(_, _)
SeqsUpTo(S, n) ==
    IF n = 0 THEN {<<>>}
    ELSE LET shorter == SeqsUpTo(S, n - 1)
         IN shorter \cup {Append(q, x) : q \in {r \in shorter : Len(r) = n - 1}, x \in S}

\* A log line, reduced to what the two regular expressions of the watcher can
\* capture from it: dur is the number captured by /时长:\s*(\d+\.?\d*)秒/ in
\* hundredths of a second (Undefined: no match); h, m, cs are the groups of
\* /time=(\d+):(\d+):(\d+\.\d+)/ (h = Undefined: no match). undef: the line
\* itself is undefined (msg.line absent).
Line(dur, h, m, cs) == [undef |-> FALSE, dur |-> dur, h |-> h, m |-> m, cs |-> cs]
PlainLine == Line(Undefined, Undefined, 0, 0)
DurLine(d) == Line(d, Undefined, 0, 0)
TimeLine(h, m, cs) == Line(Undefined, h, m, cs)
UndefLine == [undef |-> TRUE, dur |-> Undefined, h |-> Undefined, m |-> 0, cs |-> 0]

\* A frame received on the progress socket. json = FALSE: the text is not
\* valid JSON. Absent properties read as undefined.
BaseMsg(type) ==
    [json |-> TRUE, type |-> type, filename |-> UndefinedStr,
     completed |-> Undefined, failed |-> Undefined, line |-> UndefLine,
     result |-> NoResult, status |-> UndefinedStr, elapsed |-> Undefined,
     file_results |-> <<>>, current_file |-> UndefinedStr]
BadJson == [BaseMsg("") EXCEPT !.json = FALSE]
NoMsg == BaseMsg("none")

Counts == 0..MaxCount
CountPairs == Counts \X Counts
WithCounts(m, p) == [m EXCEPT !.completed = p[1], !.failed = p[2]]

\* The well-formed events of each type, over the given names, counter pairs,
\* result records, statuses, resync lists and log lines.
FileStartMsgs(names, pairs) ==
    {WithCounts([BaseMsg("file_start") EXCEPT !.filename = n], p) :
        n \in names, p \in pairs}
FileLogMsgs(lines) == {[BaseMsg("file_log") EXCEPT !.line = l] : l \in lines}
FileDoneMsgs(results, pairs) ==
    {WithCounts([BaseMsg("file_done") EXCEPT !.result = r], p) :
        r \in results, p \in pairs}
FinishedMsgs(statuses, pairs) ==
    {WithCounts([BaseMsg("finished") EXCEPT !.status = st, !.elapsed = 3], p) :
        st \in statuses \ {"running", "cancelled"}, p \in pairs}
CancelledMsgs == {BaseMsg("cancelled")}
StateMsgs(names, pairs, statuses, lists) ==
    {WithCounts([BaseMsg("state") EXCEPT !.status = st, !.file_results = rs,
                                         !.current_file = cf], p) :
        st \in statuses, rs \in lists, cf \in names \cup {""}, p \in pairs}
\* events that lack every field their type is expected to carry (a cancelled
\* event carries none), and text that is not JSON
FieldedTypes == {"file_start", "file_log", "file_done", "finished", "state"}
MalformedMsgs == {BaseMsg(t) : t \in FieldedTypes} \cup {BadJson}
\* valid JSON of a type the handler does not know
UnknownMsgs == {BaseMsg("ping")}

----------------------------------------------------------------------------
(* ProgressPanel.vue: progress estimate and derived views *)

\* h * 3600 + m * 60 + s, in hundredths of a second
ParseTime(line) == (line.h * 3600 + line.m * 60) * 100 + line.cs

\* One iteration of the watcher's loop on a defined line: <<duration, time>>.
ScanLine(line, dur, ct) ==
    << IF dur = 0 /\ line.dur # Undefined THEN line.dur ELSE dur,
       IF line.h # Undefined THEN ParseTime(line) ELSE ct >>

\* The loop from index i on; line.match on an undefined line throws and ends
\* the callback with what was assigned so far.
RECURSIVE ScanFrom(_, _, _, _)
ScanFrom(lines, i, dur, ct) ==
    IF i > Len(lines) THEN <<dur, ct>>
    ELSE IF lines[i].undef THEN <<dur, ct>>
    ELSE LET r == ScanLine(lines[i], dur, ct)
         IN ScanFrom(lines, i + 1, r[1], r[2])

\* watch(() => props.logLines.length, ...)
ScanLog(lines, dur, ct) ==
    IF Len(lines) = 0 THEN <<dur, ct>>
    ELSE ScanFrom(lines, Max(0, Len(lines) - ScanWindow) + 1, dur, ct)

\* The panel exists while the App is mounted and taskId is truthy (v-if).
PanelShown(isMounted, id) == isMounted /\ Truthy(id)

\* The estimate after one flush of the panel's watchers: the log watcher
\* (created first) runs when the length changed, then the currentFile
\* watcher resets the estimate when the file changed. A panel that was not
\* there before starts from its initial refs.
PanelAfter(wasShown, isShown, oldFile, newFile, oldLogs, newLogs, dur, ct) ==
    IF ~isShown \/ ~wasShown THEN <<0, 0>>
    ELSE IF newFile # oldFile THEN <<0, 0>>
    ELSE IF Len(newLogs) # Len(oldLogs) THEN ScanLog(newLogs, dur, ct)
    ELSE <<dur, ct>>

\* the estimate capped at 100 instead of 99
VideoPercentCap100(status, file, dur, ct) ==
    IF status \in Terminal THEN 100
    ELSE IF ~Truthy(file) THEN 0
    ELSE IF dur > 0 /\ ct > 0 THEN Min(100, RoundPct(ct, dur))
    ELSE 0

\* videoPercent
VideoPercent(status, file, dur, ct) ==
    IF status \in Terminal THEN 100
    ELSE IF ~Truthy(file) THEN 0
    ELSE IF dur > 0 /\ ct > 0 THEN Min(99, RoundPct(ct, dur))
    ELSE 0

\* resultMap[name] of videoList: the last record with that filename
HasResult(results, name) == \E i \in 1..Len(results) : results[i].filename = name
LastResult(results, name) ==
    LET idx == {i \in 1..Len(results) : results[i].filename = name}
    IN results[CHOOSE i \in idx : \A j \in idx : j <= i]

\* the current file looked at before the history
RowStatusRunningFirst(results, file, name) ==
    IF \E i \in 1..Len(results) : results[i] = NoResult THEN "error"
    ELSE IF file = name THEN "running"
    ELSE IF HasResult(results, name) THEN LastResult(results, name).status
    ELSE "pending"

\* The status videoList gives a row; "error": fr.filename on an undefined
\* record throws and no list is produced.
RowStatus(results, file, name) ==
    IF \E i \in 1..Len(results) : results[i] = NoResult THEN "error"
    ELSE IF HasResult(results, name) THEN LastResult(results, name).status
    ELSE IF file = name THEN "running"
    ELSE "pending"

\* videoList
VideoList(results, file, files) ==
    [i \in 1..Len(files) |->
        [displayName |-> files[i].displayName,
         status |-> RowStatus(results, file, files[i].displayName)]]

----------------------------------------------------------------------------
(* App.vue: startTask, connectWs, resetTask *)

DisplayName(folder, f, i, count) ==
    folder \o "/" \o f \o (IF count > 1 THEN " #" \o ToString(i + 1) ELSE "")

FileRow(c, f, i, count) ==
    [displayName |-> DisplayName(c.folder, f, i, count), filename |-> f,
     folder |-> c.folder, strategy |-> c.strategy]

\* rows of one source file: for (let i = 0; i < count; i++)
VariantRows(c, f, count) == [k \in 1..count |-> FileRow(c, f, k - 1, count)]

RECURSIVE FilesOf(_, _, _)
FilesOf(c, j, count) ==
    IF j > Len(c.files) THEN <<>>
    ELSE VariantRows(c, c.files[j], count) \o FilesOf(c, j + 1, count)

\* the flat file list of startTask
RECURSIVE BuildFiles(_, _, _)
BuildFiles(cats, k, count) ==
    IF k > Len(cats) THEN <<>>
    ELSE FilesOf(cats[k], 1, count) \o BuildFiles(cats, k + 1, count)

\* FileUploader before anything was selected
NoTree == [kind |-> "none", name |-> <<>>, entries |-> <<>>]
NoUploads == [batches |-> <<>>, queue |-> <<>>, tree |-> NoTree, groups |-> <<>>]

\* No request to /api/video-stats/batch
NoBatch == <<>>

Step(kind, m, run) == [kind |-> kind, msg |-> m, run |-> run, posted |-> NoBatch]
NoStep == Step("none", NoMsg, -1)

\* DataPanel.vue: `stats: {}`: the edited column has no value yet
NoStat == Undefined
\* null, the value of an emptied cell
EmptyStat == -3

\* the row as loaded by onMounted: nothing edited, nothing in flight, and the
\* backend holds what the row shows
NoEdits == [stats |-> NoStat, dirty |-> FALSE, saves |-> <<>>, saved |-> NoStat]

\* StrategyConfig.vue: the strategies of strategyList that are modelled, with
\* sticker_count standing for the keys of a strategy's configuration
StrategyIds == {"handwriting", "emotional"}
\* getDefaults(id).sticker_count
GetDefaults(id) == IF id = "emotional" THEN 20 ELSE 14
\* cfg.strategies has no entry for the strategy
NoEntry == Undefined
\* no save has settled since the last click on save
NoSave == [sid |-> "", outcome |-> "none", before |-> <<>>, emitted |-> FALSE]
\* App.vue:111 globalConfig = ref({}) and the onMounted of StrategyConfig
NoSaves ==
    [global |-> [sid \in StrategyIds |-> NoEntry],
     local |-> [sid \in StrategyIds |-> GetDefaults(sid)],
     saves |-> <<>>,
     done |-> NoSave]

\* EnvCheck.vue: the keys of `checks`
CheckKeys == {"ffmpeg", "ffprobe", "stickers", "sparkles"}
\* the component before it is mounted: every check pending, no install
NoChecks ==
    [mounted |-> FALSE,
     checks |-> [k \in CheckKeys |-> "pending"],
     installing |-> FALSE,
     output |-> 0,
     runs |-> 0,
     installs |-> <<>>]

\* Header: the refs of the component and updateInfo of App.vue before any
\* update check
NoPull ==
    [hasUpdate |-> FALSE,
     showPanel |-> FALSE,
     pulling |-> FALSE,
     updateDone |-> FALSE,
     pullSuccess |-> FALSE,
     checking |-> FALSE,
     output |-> 0,
     pulls |-> <<>>]

\* part_004: the folders a scan can report and the strategies of a category
Folders == {"f"}
CategoryStrategies == {"handwriting", "emotional"}
\* the folder is in no scan so far: no category, no configuration
NoCategory == "none"
NoConfig == [present |-> FALSE, sticker_count |-> Undefined, sparkle_style |-> UndefinedStr]
\* globalConfig.value.strategies has no entry for the strategy
NoGlobal == [present |-> FALSE, sticker_count |-> Undefined, sparkle_style |-> UndefinedStr]
\* the handler of the step just taken was none of the configuration's
NoOp == [kind |-> "none", folder |-> "", strategy |-> "", key |-> "", value |-> Undefined]
\* categories = [], categoryConfigs = {}, manuallyEdited = {}, globalConfig = {}
NoConfigs ==
    [strategy |-> [f \in Folders |-> NoCategory],
     config |-> [f \in Folders |-> NoConfig],
     edited |-> [f \in Folders |-> {}],
     global |-> [st \in CategoryStrategies |-> NoGlobal],
     op |-> NoOp]

Init ==
    /\ mounted = TRUE
    /\ categories = <<>>
    /\ globalOutputs = <<[mode |-> "standard", preset |-> "D"]>>
    /\ taskId = Null
    /\ taskStatus = ""
    /\ completed = 0
    /\ failed = 0
    /\ total = 0
    /\ currentFile = ""
    /\ fileResults = <<>>
    /\ elapsed = 0
    /\ logLines = <<>>
    /\ allFiles = <<>>
    /\ ws = 0
    /\ sockets = <<>>
    /\ timers = {}
    /\ calls = <<>>
    /\ videoDuration = 0
    /\ currentTime = 0
    /\ uploads = NoUploads
    /\ last = NoStep
    /\ configs = NoConfigs
    /\ header = NoPull
    /\ envCheck = NoChecks
    /\ phase = "env-check"
    /\ strategyConfig = NoSaves
    /\ dataPanel = NoEdits

\* The estimate of the panel after a step that takes the App state to the
\* primed values.
PanelStep ==
    LET r == PanelAfter(PanelShown(mounted, taskId), PanelShown(mounted', taskId'),
                        currentFile, currentFile', logLines, logLines',
                        videoDuration, currentTime)
    IN /\ videoDuration' = r[1]
       /\ currentTime' = r[2]

\* onCategoriesChanged: the scan answer replaces the category list
OnCategoriesChanged(cats) ==
    /\ mounted
    /\ ~Truthy(taskId)
    /\ categories' = cats
    /\ last' = NoStep
    /\ UNCHANGED <<components, uploads, mounted, globalOutputs, taskId, taskStatus, completed, failed,
                   total, currentFile, fileResults, elapsed, logLines, allFiles,
                   ws, sockets, timers, calls, videoDuration, currentTime>>

\* VideoList.onCountChange(val) and App's @update-outputs: the list of output
\* variants is extended with the next presets or cut to val entries
PresetOrder == <<"D", "C", "B", "E", "A">>
RECURSIVE ExtendOutputs(_, _)
ExtendOutputs(outs, val) ==
    IF Len(outs) >= val THEN outs
    ELSE ExtendOutputs(
            Append(outs, [mode |-> "standard",
                          preset |-> PresetOrder[(Len(outs) % Len(PresetOrder)) + 1]]),
            val)
\* parseInt(event.target.value) || 1, on what parseInt returned
ParseCount(n) == IF n = NaN \/ n = 0 THEN 1 ELSE n
\* Math.max(1, Math.min(10, val))
ClampBelow(val) == Max(1, val)
Clamp(val) == Max(1, Min(10, val))
OnCountChange(input) ==
    /\ mounted
    /\ ~Truthy(taskId)
    /\ Len(categories) > 0
    /\ LET val == Clamp(ParseCount(input))
       IN globalOutputs' = IF val > Len(globalOutputs)
                           THEN ExtendOutputs(globalOutputs, val)
                           ELSE SubSeq(globalOutputs, 1, val)
    /\ last' = NoStep
    /\ UNCHANGED <<components, uploads, mounted, categories, taskId, taskStatus, completed, failed,
                   total, currentFile, fileResults, elapsed, logLines, allFiles,
                   ws, sockets, timers, calls, videoDuration, currentTime>>

\* VideoList.onOutputChange(index, field, value) and App's @update-outputs:
\* index is the JavaScript index of a rendered row
OnOutputChange(index, field, value) ==
    /\ mounted
    /\ ~Truthy(taskId)
    /\ Len(categories) > 0
    /\ index \in 0..(Len(globalOutputs) - 1)
    /\ globalOutputs' = [i \in 1..Len(globalOutputs) |->
                            IF i - 1 = index
                            THEN [globalOutputs[i] EXCEPT ![field] = value]
                            ELSE globalOutputs[i]]
    /\ last' = NoStep
    /\ UNCHANGED <<components, uploads, mounted, categories, taskId, taskStatus, completed, failed,
                   total, currentFile, fileResults, elapsed, logLines, allFiles,
                   ws, sockets, timers, calls, videoDuration, currentTime>>

RemoveAt(q, i) == SubSeq(q, 1, i - 1) \o SubSeq(q, i + 1, Len(q))

\* startTask up to `await fetch(...)`: the start button of VideoList is shown
\* while taskId is falsy and there are categories. The call keeps `outputs`
\* and the categories written into the request body.
StartClick ==
    /\ mounted
    /\ ~Truthy(taskId)
    /\ Len(categories) > 0
    /\ calls' = Append(calls, [pc |-> "fetch", outputs |-> globalOutputs,
                               body |-> categories])
    /\ last' = NoStep
    /\ UNCHANGED <<components, uploads, mounted, categories, globalOutputs, taskId, taskStatus,
                   completed, failed, total, currentFile, fileResults, elapsed,
                   logLines, allFiles, ws, sockets, timers, videoDuration,
                   currentTime>>

\* fetch resolved (any HTTP status): build the flat file list, then
\* `await res.json()`
FetchResolve(i) ==
    /\ i \in 1..Len(calls)
    /\ calls[i].pc = "fetch"
    /\ allFiles' = BuildFiles(categories, 1, Len(calls[i].outputs))
    /\ calls' = [calls EXCEPT ![i].pc = "json"]
    /\ last' = NoStep
    /\ UNCHANGED <<components, uploads, mounted, categories, globalOutputs, taskId, taskStatus,
                   completed, failed, total, currentFile, fileResults, elapsed,
                   logLines, ws, sockets, timers, videoDuration, currentTime>>

\* fetch rejected (network error): startTask ends with the exception
FetchReject(i) ==
    /\ i \in 1..Len(calls)
    /\ calls[i].pc = "fetch"
    /\ calls' = RemoveAt(calls, i)
    /\ last' = NoStep
    /\ UNCHANGED <<components, uploads, mounted, categories, globalOutputs, taskId, taskStatus,
                   completed, failed, total, currentFile, fileResults, elapsed,
                   logLines, allFiles, ws, sockets, timers, videoDuration,
                   currentTime>>

\* connectWs(id): a new socket, kept in `ws`
ConnectWs(id) ==
    /\ sockets' = Append(sockets, [id |-> id, st |-> "open"])
    /\ ws' = Len(sockets) + 1

\* res.json() resolved with data: the rest of startTask
JsonResolve(i, data) ==
    /\ i \in 1..Len(calls)
    /\ calls[i].pc = "json"
    /\ calls' = RemoveAt(calls, i)
    /\ taskId' = data.task_id
    /\ total' = data.total
    /\ taskStatus' = "running"
    /\ completed' = 0
    /\ failed' = 0
    /\ fileResults' = <<>>
    /\ currentFile' = ""
    /\ logLines' = <<>>
    /\ ConnectWs(data.task_id)
    /\ last' = Step("submitted", NoMsg, 0)
    /\ UNCHANGED <<components, uploads, mounted, categories, globalOutputs, elapsed, allFiles, timers>>
    /\ PanelStep

\* res.json() rejected (the body is not JSON): startTask ends with the exception
JsonReject(i) ==
    /\ i \in 1..Len(calls)
    /\ calls[i].pc = "json"
    /\ calls' = RemoveAt(calls, i)
    /\ last' = NoStep
    /\ UNCHANGED <<components, uploads, mounted, categories, globalOutputs, taskId, taskStatus,
                   completed, failed, total, currentFile, fileResults, elapsed,
                   logLines, allFiles, ws, sockets, timers, videoDuration,
                   currentTime>>

\* The number of job files the backend reports for a request: one per file
\* of each category and output variant.
RECURSIVE CountFiles(_, _)
CountFiles(cats, k) ==
    IF k > Len(cats) THEN 0 ELSE Len(cats[k].files) + CountFiles(cats, k + 1)
JobTotal(cats, outs) == CountFiles(cats, 1) * Len(outs)

\* answers of POST /api/tasks/upload
Responses ==
    {[task_id |-> id, total |-> n] :
        id \in TaskIds \cup {UndefinedStr}, n \in {MaxResults, Undefined}}

----------------------------------------------------------------------------
(* App.vue: connectWs - ws.onmessage, field by field *)

\* a failed file ends the job
NextStatusFailedFileEnds(m, cur) ==
    IF m.type = "finished" THEN m.status
    ELSE IF m.type = "cancelled" THEN "cancelled"
    ELSE IF m.type = "state" THEN m.status
    ELSE IF m.type = "file_done" /\ m.result.status = "failed" THEN "failed"
    ELSE cur

\* taskStatus after the handler
NextStatus(m, cur) ==
    IF m.type = "finished" THEN m.status
    ELSE IF m.type = "cancelled" THEN "cancelled"
    ELSE IF m.type = "state" THEN m.status
    ELSE cur

\* completed counted by the tracker from the reported status of each file
NextCompletedCounting(m, cur) ==
    IF m.type = "file_done"
    THEN (IF m.result.status = "done" THEN cur + 1 ELSE cur)
    ELSE IF m.type \in {"file_start", "finished", "state"} THEN m.completed
    ELSE cur

\* completed after the handler
NextCompleted(m, cur) ==
    IF m.type \in {"file_start", "file_done", "finished", "state"} THEN m.completed
    ELSE cur

\* failed never taken below the value held
NextFailedMonotone(m, cur) ==
    IF m.type \in {"file_start", "file_done", "finished", "state"}
    THEN Max(cur, m.failed)
    ELSE cur

\* failed after the handler
NextFailed(m, cur) ==
    IF m.type \in {"file_start", "file_done", "finished", "state"} THEN m.failed
    ELSE cur

\* currentFile after the handler
NextFile(m, cur) ==
    IF m.type = "file_start" THEN m.filename
    ELSE IF m.type \in {"finished", "cancelled"} THEN ""
    ELSE IF m.type = "state" THEN m.current_file
    ELSE cur

\* a resync merged into the history instead of replacing it
NextResultsMerge(m, cur) ==
    IF m.type = "file_done" THEN Append(cur, m.result)
    ELSE IF m.type = "state" THEN cur \o m.file_results
    ELSE cur

\* fileResults after the handler (msg.file_results || [] : an absent list is <<>>)
NextResults(m, cur) ==
    IF m.type = "file_done" THEN Append(cur, m.result)
    ELSE IF m.type = "state" THEN m.file_results
    ELSE cur

\* the oldest lines kept instead of the most recent
TrimOldest(lines) ==
    IF Len(lines) > LogCap THEN SubSeq(lines, 1, LogKeep) ELSE lines

\* logLines.slice(-150)
Trim(lines) ==
    IF Len(lines) > LogCap THEN SubSeq(lines, Len(lines) - LogKeep + 1, Len(lines))
    ELSE lines

\* logLines after the handler
NextLogs(m, cur) ==
    IF m.type = "file_start" THEN <<>>
    ELSE IF m.type = "file_log" THEN Trim(Append(cur, m.line))
    ELSE cur

\* elapsed after the handler
NextElapsed(m, cur) ==
    IF m.type = "finished" THEN m.elapsed ELSE cur

RECURSIVE DoneResults(_, _)
\* fileResults.value.filter(r => r.status === 'done'), from index k on
DoneResults(results, k) ==
    IF k > Len(results) THEN <<>>
    ELSE IF results[k].status = "done"
         THEN <<results[k]>> \o DoneResults(results, k + 1)
         ELSE DoneResults(results, k + 1)

\* One entry of the videos array: no video_id travels with a result, so the id
\* is `${taskId}_${filename}`
StatsEntry(id, r) ==
    [id |-> <<id, r.filename>>, task_id |-> id, filename |-> r.filename]

\* registerVideoStats: the body posted to /api/video-stats/batch, NoBatch when
\* no result is done. Reading r.status of an undefined element throws and the
\* async function ends without a request.
RegisterVideoStats(results, id) ==
    IF \E k \in 1..Len(results) : results[k] = NoResult THEN NoBatch
    ELSE LET videos == DoneResults(results, 1)
         IN  [k \in 1..Len(videos) |-> StatsEntry(id, videos[k])]

\* ws.onmessage of socket s. JSON.parse throws on text that is not JSON and
\* the handler ends before any assignment.
OnMessage(s, m) ==
    /\ s \in 1..Len(sockets)
    /\ sockets[s].st = "open"
    /\ IF m.json
       THEN /\ taskStatus' = NextStatus(m, taskStatus)
            /\ completed' = NextCompleted(m, completed)
            /\ failed' = NextFailed(m, failed)
            /\ currentFile' = NextFile(m, currentFile)
            /\ fileResults' = NextResults(m, fileResults)
            /\ logLines' = NextLogs(m, logLines)
            /\ elapsed' = NextElapsed(m, elapsed)
       ELSE UNCHANGED <<taskStatus, completed, failed, currentFile, fileResults,
                        logLines, elapsed>>
    /\ last' = [Step("message", m,
                     IF m.json /\ m.type = "file_done" /\ last.run >= 0
                     THEN last.run + 1 ELSE -1)
                EXCEPT !.posted = IF m.json /\ m.type = "finished"
                                  THEN RegisterVideoStats(fileResults', taskId)
                                  ELSE NoBatch]
    /\ UNCHANGED <<components, uploads, mounted, categories, globalOutputs, taskId, total, allFiles,
                   ws, sockets, timers, calls>>
    /\ PanelStep

\* a timeout set whatever the status is
ReconnectsAlways(s, status) ==
    {[sock |-> s, id |-> sockets[s].id, delay |-> ReconnectDelay]}

\* The timeout ws.onclose sets when the status read at that moment is
\* "running": setTimeout(() => connectWs(id), 2000)
Reconnects(s, status) ==
    IF status = "running"
    THEN {[sock |-> s, id |-> sockets[s].id, delay |-> ReconnectDelay]}
    ELSE {}

\* ws.onclose of socket s: the connection dropped, or close() was called
OnClose(s) ==
    /\ s \in 1..Len(sockets)
    /\ sockets[s].st \in {"open", "closing"}
    /\ sockets' = [sockets EXCEPT ![s].st = "closed"]
    /\ timers' = timers \cup Reconnects(s, taskStatus)
    /\ last' = NoStep
    /\ UNCHANGED <<components, uploads, mounted, categories, globalOutputs, taskId, taskStatus,
                   completed, failed, total, currentFile, fileResults, elapsed,
                   logLines, allFiles, ws, calls, videoDuration, currentTime>>

\* the timeout fires: connectWs(id)
TimerFire(t) ==
    /\ t \in timers
    /\ timers' = timers \ {t}
    /\ ConnectWs(t.id)
    /\ last' = NoStep
    /\ UNCHANGED <<components, uploads, mounted, categories, globalOutputs, taskId, taskStatus,
                   completed, failed, total, currentFile, fileResults, elapsed,
                   logLines, allFiles, calls, videoDuration, currentTime>>

\* ws.close() of onBeforeUnmount on the socket held by `ws`
CloseHeld(socks, held) ==
    IF held # 0 /\ socks[held].st = "open"
    THEN [socks EXCEPT ![held].st = "closing"]
    ELSE socks

\* onBeforeUnmount: if (ws) ws.close(); the panel goes with the App
Unmount ==
    /\ mounted
    /\ mounted' = FALSE
    /\ sockets' = CloseHeld(sockets, ws)
    /\ videoDuration' = 0
    /\ currentTime' = 0
    /\ last' = NoStep
    /\ UNCHANGED <<components, uploads, categories, globalOutputs, taskId, taskStatus, completed,
                   failed, total, currentFile, fileResults, elapsed, logLines,
                   allFiles, ws, timers, calls>>

\* isFinished of the panel: status && status !== 'running'
IsFinished(status) == Truthy(status) /\ status # "running"

\* resetTask: the "back" button of the panel, shown when isFinished
ResetTask ==
    /\ mounted
    /\ Truthy(taskId)
    /\ IsFinished(taskStatus)
    /\ taskId' = Null
    /\ taskStatus' = ""
    /\ completed' = 0
    /\ failed' = 0
    /\ total' = 0
    /\ currentFile' = ""
    /\ fileResults' = <<>>
    /\ allFiles' = <<>>
    /\ elapsed' = 0
    /\ logLines' = <<>>
    /\ categories' = <<>>
    /\ globalOutputs' = <<[mode |-> "standard", preset |-> "D"]>>
    /\ last' = NoStep
    /\ UNCHANGED <<components, uploads, mounted, ws, sockets, timers, calls>>
    /\ PanelStep

\* the status forced to "cancelled" by the click
StatusAfterCancelForced(cur) == "cancelled"

\* cancelTask assigns nothing: the status after the click is the one before
StatusAfterCancel(cur) == cur

\* cancelTask: the stop button of the panel (shown while running) sends one
\* POST /api/tasks/{id}/cancel
CancelTask ==
    /\ mounted
    /\ Truthy(taskId)
    /\ taskStatus = "running"
    /\ taskStatus' = StatusAfterCancel(taskStatus)
    /\ last' = Step("cancel", NoMsg, -1)
    /\ UNCHANGED <<components, uploads, mounted, categories, globalOutputs, taskId, completed,
                   failed, total, currentFile, fileResults, elapsed, logLines,
                   allFiles, ws, sockets, timers, calls, videoDuration, currentTime>>

----------------------------------------------------------------------------
(* FileUploader.vue: category inference and doUpload *)

\* Folder and category names are sequences of characters.
DefaultCategory == <<"默", "认">>
Separators == {"/", "\\"}
Blanks == {" "}

\* category.replace(/[/\\]/g, '_')
ReplaceSeparators(name) ==
    [i \in 1..Len(name) |-> IF name[i] \in Separators THEN "_" ELSE name[i]]

\* String.prototype.trim
RECURSIVE TrimLeft(_)
TrimLeft(name) ==
    IF name # <<>> /\ name[1] \in Blanks THEN TrimLeft(Tail(name)) ELSE name
RECURSIVE TrimRight(_)
TrimRight(name) ==
    IF name # <<>> /\ name[Len(name)] \in Blanks
    THEN TrimRight(SubSeq(name, 1, Len(name) - 1))
    ELSE name
TrimName(name) == TrimRight(TrimLeft(name))

\* the sanitized name without the trim
SafeCatUntrimmed(category) ==
    LET t == ReplaceSeparators(category)
    IN IF t = <<>> THEN DefaultCategory ELSE t

\* safeCat of doUpload
SafeCat(category) ==
    LET t == TrimName(ReplaceSeparators(category))
    IN IF t = <<>> THEN DefaultCategory ELSE t

\* A file: [stem, ext]; isVideo lower-cases the extension.
File(stem, ext) == [kind |-> "file", stem |-> stem, ext |-> ext]
Dir(name, entries) == [kind |-> "dir", name |-> name, entries |-> entries]
VideoExts == {"mp4", "mov", "m4v", "avi", "mkv", "webm", "flv", "wmv"}
ToLowerCase(ext) == IF ext = "MP4" THEN "mp4" ELSE ext
IsVideo(f) == ToLowerCase(f.ext) \in VideoExts

\* the video files among the entries of a directory, in directory order
RECURSIVE VideosOf(_, _)
VideosOf(entries, k) ==
    IF k > Len(entries) THEN <<>>
    ELSE (IF entries[k].kind = "file" /\ IsVideo(entries[k])
          THEN <<entries[k]>> ELSE <<>>) \o VideosOf(entries, k + 1)

\* groups[cat] = files on an object: a key already there keeps its place
Group(cat, files) == [cat |-> cat, files |-> files]
HasGroup(groups, cat) == \E i \in 1..Len(groups) : groups[i].cat = cat
SetGroup(groups, cat, files) ==
    IF HasGroup(groups, cat)
    THEN [i \in 1..Len(groups) |->
            IF groups[i].cat = cat THEN Group(cat, files) ELSE groups[i]]
    ELSE Append(groups, Group(cat, files))

\* the loop of readDirectoryGrouped over the entries of the dropped folder
RECURSIVE SubGroups(_, _, _)
SubGroups(entries, k, groups) ==
    IF k > Len(entries) THEN groups
    ELSE IF entries[k].kind = "dir" /\ VideosOf(entries[k].entries, 1) # <<>>
    THEN SubGroups(entries, k + 1,
                   SetGroup(groups, entries[k].name, VideosOf(entries[k].entries, 1)))
    ELSE SubGroups(entries, k + 1, groups)

\* readDirectoryGrouped
ReadDirectoryGrouped(dir) ==
    LET groups == SubGroups(dir.entries, 1, <<>>)
        rootFiles == VideosOf(dir.entries, 1)
    IN IF rootFiles # <<>> THEN SetGroup(groups, dir.name, rootFiles) ELSE groups

\* event.target.files of the folder input: every file below the folder, each
\* with the folders of its webkitRelativePath (the selected folder first)
RECURSIVE Flatten(_, _, _)
Flatten(entries, k, folders) ==
    IF k > Len(entries) THEN <<>>
    ELSE (IF entries[k].kind = "file"
          THEN <<[file |-> entries[k], folders |-> folders]>>
          ELSE Flatten(entries[k].entries, 1, Append(folders, entries[k].name)))
         \o Flatten(entries, k + 1, folders)

\* parts.length >= 3 ? parts[parts.length - 2] : (parts[0] || defaultCategory)
PathCategory(folders) ==
    IF Len(folders) + 1 >= 3 THEN folders[Len(folders)]
    ELSE IF folders[1] # <<>> THEN folders[1]
    ELSE DefaultCategory

\* groups[cat].push(file)
PushGroup(groups, cat, f) ==
    IF HasGroup(groups, cat)
    THEN [i \in 1..Len(groups) |->
            IF groups[i].cat = cat THEN Group(cat, Append(groups[i].files, f))
            ELSE groups[i]]
    ELSE Append(groups, Group(cat, <<f>>))

\* the grouping loop of onFolderInputChange
RECURSIVE GroupByPath(_, _, _)
GroupByPath(list, k, groups) ==
    IF k > Len(list) THEN groups
    ELSE IF IsVideo(list[k].file)
    THEN GroupByPath(list, k + 1,
                     PushGroup(groups, PathCategory(list[k].folders), list[k].file))
    ELSE GroupByPath(list, k + 1, groups)

\* every request of the batch sent at once
FirstSendsAll(files) == files

\* the requests sent when doUpload starts: the first file's
FirstSends(files) == IF files = <<>> THEN <<>> ELSE <<files[1]>>

\* a failed upload ends the batch
ContinuesOnSuccess(outcome) == outcome = "ok"

\* try { await uploadSingleFile } catch: the loop goes on after any outcome
Continues(outcome) == TRUE

\* doUpload(files, category) up to its first await
StartBatch(files, category, chained) ==
    [raw |-> category, cat |-> SafeCat(category), files |-> files,
     sent |-> FirstSends(files), done |-> <<>>, hung |-> FALSE, stopped |-> FALSE,
     emitted |-> IF files = <<>> THEN 1 ELSE 0, chained |-> chained]

UploadOutcomes == {"ok", "http_error", "network_error"}
InFlight(b) == Len(b.sent) > Len(b.done) /\ ~b.hung /\ ~b.stopped

\* onFileInputChange: the picked videos go to the default category
OnFileInputChange(list) ==
    /\ mounted
    /\ ~Truthy(taskId)
    /\ VideosOf(list, 1) # <<>>
    /\ uploads' = [uploads EXCEPT
                     !.batches = Append(@, StartBatch(VideosOf(list, 1),
                                                      DefaultCategory, FALSE))]
    /\ last' = NoStep
    /\ UNCHANGED <<components, mounted, categories, globalOutputs, taskId,
                   taskStatus, completed, failed, total, currentFile, fileResults, elapsed,
                   logLines, allFiles, ws, sockets, timers, calls, videoDuration,
                   currentTime>>

\* a folder was selected and grouped: doUpload of the first group starts, the
\* others wait for it (for ... of Object.entries(groups): await doUpload)
SelectFolder(tree, groups) ==
    /\ mounted
    /\ ~Truthy(taskId)
    /\ uploads' = [uploads EXCEPT
                     !.tree = tree,
                     !.groups = groups,
                     !.queue = IF groups = <<>> THEN <<>> ELSE Tail(groups),
                     !.batches = IF groups = <<>> THEN @
                                 ELSE Append(@, StartBatch(groups[1].files,
                                                           groups[1].cat, TRUE))]
    /\ last' = NoStep
    /\ UNCHANGED <<components, mounted, categories, globalOutputs, taskId,
                   taskStatus, completed, failed, total, currentFile, fileResults, elapsed,
                   logLines, allFiles, ws, sockets, timers, calls, videoDuration,
                   currentTime>>

\* handleDrop of one directory entry
HandleDrop(tree) == SelectFolder(tree, ReadDirectoryGrouped(tree))

\* onFolderInputChange
OnFolderInputChange(tree) ==
    SelectFolder(tree, GroupByPath(Flatten(tree.entries, 1, <<tree.name>>), 1, <<>>))

\* The promise of uploadSingleFile settles (xhr.onload / xhr.onerror) and
\* doUpload goes on: the next request is sent, or categoriesChanged is emitted
\* and the handler that awaited this doUpload starts the next group's.
Settle(b, outcome) ==
    /\ b \in 1..Len(uploads.batches)
    /\ InFlight(uploads.batches[b])
    /\ LET old == uploads.batches[b]
           done == Append(old.done, outcome)
           more == Len(old.sent) < Len(old.files)
           goesOn == Continues(outcome)
           new == [old EXCEPT
                     !.done = done,
                     !.stopped = ~goesOn,
                     !.sent = IF goesOn /\ more
                              THEN Append(@, old.files[Len(old.sent) + 1]) ELSE @,
                     !.emitted = IF goesOn /\ ~more THEN @ + 1 ELSE @]
           ends == goesOn /\ ~more /\ Len(done) = Len(old.files)
           next == ends /\ old.chained /\ uploads.queue # <<>>
       IN uploads' = [uploads EXCEPT
                        !.batches =
                            IF next
                            THEN Append([@ EXCEPT ![b] = new],
                                        StartBatch(uploads.queue[1].files,
                                                   uploads.queue[1].cat, TRUE))
                            ELSE [@ EXCEPT ![b] = new],
                        !.queue = IF next THEN Tail(@) ELSE @]
    /\ last' = NoStep
    /\ UNCHANGED <<components, mounted, categories, globalOutputs, taskId,
                   taskStatus, completed, failed, total, currentFile, fileResults, elapsed,
                   logLines, allFiles, ws, sockets, timers, calls, videoDuration,
                   currentTime>>

\* xhr.onload with a 2xx status and a body that is not JSON: JSON.parse throws
\* inside the handler, the promise never settles and doUpload stays suspended
Hang(b) ==
    /\ b \in 1..Len(uploads.batches)
    /\ InFlight(uploads.batches[b])
    /\ uploads' = [uploads EXCEPT !.batches[b].hung = TRUE]
    /\ last' = NoStep
    /\ UNCHANGED <<components, mounted, categories, globalOutputs, taskId,
                   taskStatus, completed, failed, total, currentFile, fileResults, elapsed,
                   logLines, allFiles, ws, sockets, timers, calls, videoDuration,
                   currentTime>>

----------------------------------------------------------------------------
(* DataPanel.vue: editing and saving the statistics of a row *)

RECURSIVE Number(_)
\* Number(value) of the decimal digits of a number input
Number(digits) ==
    IF digits = <<>> THEN 0
    ELSE 10 * Number(SubSeq(digits, 1, Len(digits) - 1)) + digits[Len(digits)]

\* onStatChange(video, key, value): value is the text of the number input
OnStatChange(value) ==
    /\ dataPanel' = [dataPanel EXCEPT
                       !.stats = IF value = <<>> THEN EmptyStat ELSE Number(value),
                       !.dirty = TRUE]
    /\ UNCHANGED <<app, strategyConfig, phase, envCheck, header, configs>>

\* saveRow up to its await: the button is rendered while the row is dirty,
\* the body is serialised from the stats of that moment
SaveRow ==
    /\ dataPanel.dirty
    /\ Len(dataPanel.saves) < MaxSaves
    /\ dataPanel' = [dataPanel EXCEPT !.saves = Append(@, [sent |-> dataPanel.stats])]
    /\ UNCHANGED <<app, strategyConfig, phase, envCheck, header, configs>>

\* the fetch of save i resolves, whatever the response says: the request is
\* complete and saveRow goes on to delete the flag
SaveResolve(i) ==
    /\ i \in 1..Len(dataPanel.saves)
    /\ dataPanel' = [dataPanel EXCEPT
                       !.dirty = FALSE,
                       !.saved = dataPanel.saves[i].sent,
                       !.saves = RemoveAt(@, i)]
    /\ UNCHANGED <<app, strategyConfig, phase, envCheck, header, configs>>

\* the fetch of save i rejects: saveRow throws at its await
SaveReject(i) ==
    /\ i \in 1..Len(dataPanel.saves)
    /\ dataPanel' = [dataPanel EXCEPT !.saves = RemoveAt(@, i)]
    /\ UNCHANGED <<app, strategyConfig, phase, envCheck, header, configs>>

----------------------------------------------------------------------------
(* StrategyConfig.vue: save *)

\* setVal(sid, key, val)
SetVal(sid, val) ==
    /\ strategyConfig' = [strategyConfig EXCEPT !.local[sid] = val]
    /\ UNCHANGED <<app, dataPanel, phase, envCheck, header, configs>>

\* save(sid) up to its await: cfg is props.globalConfig itself, so the
\* assignment to cfg.strategies[sid] writes the shared object; the body is
\* serialised from it. `before` keeps the shared object as it was.
Save(sid) ==
    /\ Len(strategyConfig.saves) < MaxSaves
    /\ LET cfg == [strategyConfig.global EXCEPT ![sid] = strategyConfig.local[sid]]
       IN strategyConfig' =
            [strategyConfig EXCEPT
               !.global = cfg,
               !.saves = Append(@, [sid |-> sid, cfg |-> cfg,
                                    before |-> strategyConfig.global]),
               !.done = NoSave]
    /\ UNCHANGED <<app, dataPanel, phase, envCheck, header, configs>>

\* How the PUT /api/config of a save can end: the backend accepts it, the
\* backend answers with an error status, the fetch rejects
SaveOutcomes == {"accepted", "refused", "error"}

\* save(sid) after its await. A resolved fetch, whatever its status, emits
\* saved and onGlobalConfigSaved stores a copy of cfg; a rejected one goes to
\* the catch.
SaveSettle(i, outcome) ==
    /\ i \in 1..Len(strategyConfig.saves)
    /\ LET sv == strategyConfig.saves[i]
       IN strategyConfig' =
            [strategyConfig EXCEPT
               !.saves = RemoveAt(@, i),
               !.done = [sid |-> sv.sid, outcome |-> outcome,
                         before |-> sv.before, emitted |-> outcome # "error"]]
    /\ UNCHANGED <<app, dataPanel, phase, envCheck, header, configs>>

----------------------------------------------------------------------------
(* EnvCheck.vue: runCheck, installFfmpeg and the ready button *)

\* installOutput.value.slice(-300)
OutputCap == 300

\* allReady
AllReady(checks) == \A k \in CheckKeys : checks[k] = "ok"
\* hasMissing negated: no check is missing
NoneMissing(checks) == \A k \in CheckKeys : checks[k] # "missing"
\* ffmpegMissing
FfmpegMissing(checks) == checks["ffmpeg"] = "missing" \/ checks["ffprobe"] = "missing"

\* :disabled="!allReady" of the ready button
ReadyEnabled(checks) == AllReady(checks)

\* the synchronous part of runCheck: every check is set to checking and the
\* request is sent
RunCheck(env) ==
    [env EXCEPT !.checks = [k \in CheckKeys |-> "checking"], !.runs = @ + 1]

\* onMounted
OnMountedEnv ==
    /\ phase = "env-check"
    /\ ~envCheck.mounted
    /\ envCheck' = [RunCheck(envCheck) EXCEPT !.mounted = TRUE]
    /\ UNCHANGED <<app, dataPanel, strategyConfig, phase, header, configs>>

\* the status runCheck gives an asset directory
AssetStatus(asset) == IF asset.exists /\ asset.count > 0 THEN "ok" ELSE "missing"
\* the status runCheck gives a tool
ToolStatus(tool) == IF tool.installed THEN "ok" ELSE "missing"

\* the catch of runCheck: what is still checking becomes missing
CheckFailed(checks) ==
    [k \in CheckKeys |-> IF checks[k] = "checking" THEN "missing" ELSE checks[k]]

\* The response of /api/env-check arrives as JSON. A body without `assets`
\* throws after the two tools were assigned and the catch runs.
CheckResolve(data) ==
    /\ envCheck.runs > 0
    /\ LET tools == [envCheck.checks EXCEPT
                       !["ffmpeg"] = ToolStatus(data.ffmpeg),
                       !["ffprobe"] = ToolStatus(data.ffprobe)]
       IN envCheck' =
            [envCheck EXCEPT
               !.runs = @ - 1,
               !.checks = IF data.whole
                          THEN [tools EXCEPT
                                  !["stickers"] = AssetStatus(data.stickers),
                                  !["sparkles"] = AssetStatus(data.sparkles)]
                          ELSE CheckFailed(tools)]
    /\ UNCHANGED <<app, dataPanel, strategyConfig, phase, header, configs>>

\* the fetch of runCheck rejects or the body is not JSON
CheckReject ==
    /\ envCheck.runs > 0
    /\ envCheck' = [envCheck EXCEPT !.runs = @ - 1, !.checks = CheckFailed(@)]
    /\ UNCHANGED <<app, dataPanel, strategyConfig, phase, header, configs>>

\* a click on the ready button: emit('ready') and App sets phase = 'main'
Ready ==
    /\ phase = "env-check"
    /\ envCheck.mounted
    /\ ReadyEnabled(envCheck.checks)
    /\ phase' = "main"
    /\ UNCHANGED <<app, dataPanel, strategyConfig, envCheck, header, configs>>

\* installOutput.value.push(...) with the slice that follows it in ws.onmessage
Push(n) == IF n + 1 > OutputCap THEN OutputCap ELSE n + 1

\* a click on the install button, rendered while ffmpeg or ffprobe is
\* missing and no install is running
InstallFfmpeg ==
    /\ phase = "env-check"
    /\ envCheck.mounted
    /\ FfmpegMissing(envCheck.checks)
    /\ ~envCheck.installing
    /\ envCheck' = [envCheck EXCEPT
                      !.installing = TRUE,
                      !.output = 0,
                      !.installs = Append(@, "open")]
    /\ UNCHANGED <<app, dataPanel, strategyConfig, phase, header, configs>>

\* ws.onmessage of install socket s with an output line
OnInstallOutput(s) ==
    /\ s \in 1..Len(envCheck.installs)
    /\ envCheck.installs[s] = "open"
    /\ envCheck' = [envCheck EXCEPT !.output = Push(@)]
    /\ UNCHANGED <<app, dataPanel, strategyConfig, phase, header, configs>>

\* ws.onmessage of install socket s with the done message
OnInstallDone(s, success) ==
    /\ s \in 1..Len(envCheck.installs)
    /\ envCheck.installs[s] = "open"
    /\ LET env == [envCheck EXCEPT !.installing = FALSE, !.installs[s] = "done"]
       IN envCheck' = IF success THEN RunCheck(env)
                      ELSE [env EXCEPT !.output = @ + 1]
    /\ UNCHANGED <<app, dataPanel, strategyConfig, phase, header, configs>>

\* ws.onerror of install socket s; the socket is closed after it
OnInstallError(s) ==
    /\ s \in 1..Len(envCheck.installs)
    /\ envCheck.installs[s] = "open"
    /\ envCheck' = [envCheck EXCEPT
                      !.installing = FALSE,
                      !.output = @ + 1,
                      !.installs = RemoveAt(@, s)]
    /\ UNCHANGED <<app, dataPanel, strategyConfig, phase, header, configs>>

\* install socket s closes; installFfmpeg sets no onclose
OnInstallClose(s) ==
    /\ s \in 1..Len(envCheck.installs)
    /\ envCheck' = [envCheck EXCEPT !.installs = RemoveAt(@, s)]
    /\ UNCHANGED <<app, dataPanel, strategyConfig, phase, header, configs>>

----------------------------------------------------------------------------
(* Header: the update badge, recheckUpdate and runGitPull *)

\* What the right side of the header renders: the badge of an available
\* update, the "updated, please refresh" text, or the version
HeaderShows(h) ==
    IF h.hasUpdate /\ ~h.updateDone THEN "badge"
    ELSE IF h.updateDone THEN "updated"
    ELSE "version"

\* the check of App.vue after the main UI is entered, and onUpdateChecked
UpdateChecked(has) ==
    /\ header' = [header EXCEPT !.hasUpdate = IF has THEN TRUE ELSE @]
    /\ UNCHANGED <<app, dataPanel, strategyConfig, phase, envCheck, configs>>

\* a click on the version text
RecheckUpdate ==
    /\ HeaderShows(header) = "version"
    /\ ~header.checking
    /\ header' = [header EXCEPT !.checking = TRUE]
    /\ UNCHANGED <<app, dataPanel, strategyConfig, phase, envCheck, configs>>

\* the request of recheckUpdate answers: emit('updateChecked', data)
RecheckResolve(has) ==
    /\ header.checking
    /\ header' = [header EXCEPT !.checking = FALSE,
                                !.hasUpdate = IF has THEN TRUE ELSE @]
    /\ UNCHANGED <<app, dataPanel, strategyConfig, phase, envCheck, configs>>

\* the request of recheckUpdate fails
RecheckReject ==
    /\ header.checking
    /\ header' = [header EXCEPT !.checking = FALSE]
    /\ UNCHANGED <<app, dataPanel, strategyConfig, phase, envCheck, configs>>

\* a click on the badge
TogglePanel ==
    /\ HeaderShows(header) = "badge"
    /\ header' = [header EXCEPT !.showPanel = ~@]
    /\ UNCHANGED <<app, dataPanel, strategyConfig, phase, envCheck, configs>>

\* a click on the close button of the panel or outside the panel
ClosePanel ==
    /\ header.showPanel
    /\ header' = [header EXCEPT !.showPanel = FALSE]
    /\ UNCHANGED <<app, dataPanel, strategyConfig, phase, envCheck, configs>>

\* a click on the pull button of the panel
RunGitPull ==
    /\ header.showPanel
    /\ ~header.pulling
    /\ ~header.updateDone
    /\ header' = [header EXCEPT
                    !.pulling = TRUE,
                    !.output = 0,
                    !.pulls = Append(@, "open")]
    /\ UNCHANGED <<app, dataPanel, strategyConfig, phase, envCheck, configs>>

\* ws.onmessage of pull socket s with an output line
OnPullOutput(s) ==
    /\ s \in 1..Len(header.pulls)
    /\ header.pulls[s] = "open"
    /\ header' = [header EXCEPT !.output = @ + 1]
    /\ UNCHANGED <<app, dataPanel, strategyConfig, phase, envCheck, configs>>

\* ws.onmessage of pull socket s with the done message; on success
\* emit('updateDone') and App sets updateInfo = null
OnPullDone(s, success, error) ==
    /\ s \in 1..Len(header.pulls)
    /\ header.pulls[s] = "open"
    /\ header' = [header EXCEPT
                    !.pulling = FALSE,
                    !.updateDone = TRUE,
                    !.pullSuccess = success,
                    !.hasUpdate = IF success THEN FALSE ELSE @,
                    !.output = IF ~success /\ error THEN @ + 1 ELSE @,
                    !.pulls[s] = "done"]
    /\ UNCHANGED <<app, dataPanel, strategyConfig, phase, envCheck, configs>>

\* ws.onerror of pull socket s; the socket is closed after it
OnPullError(s) ==
    /\ s \in 1..Len(header.pulls)
    /\ header.pulls[s] = "open"
    /\ header' = [header EXCEPT
                    !.pulling = FALSE,
                    !.updateDone = TRUE,
                    !.pullSuccess = FALSE,
                    !.output = @ + 1,
                    !.pulls = RemoveAt(@, s)]
    /\ UNCHANGED <<app, dataPanel, strategyConfig, phase, envCheck, configs>>

\* pull socket s closes; runGitPull sets no onclose
OnPullClose(s) ==
    /\ s \in 1..Len(header.pulls)
    /\ header' = [header EXCEPT !.pulls = RemoveAt(@, s)]
    /\ UNCHANGED <<app, dataPanel, strategyConfig, phase, envCheck, configs>>

----------------------------------------------------------------------------
(* part_004: the per-category configuration *)

\* the keys of a configuration that are modelled
ConfigKeys == {"sticker_count", "sparkle_style"}

\* a ?? b on numbers and on strings
OrElse(a, b) == IF a = Undefined THEN b ELSE a
OrElseStr(a, b) == IF a = UndefinedStr THEN b ELSE a

\* STRATEGY_DEFAULTS[strategy] || STRATEGY_DEFAULTS.handwriting
StrategyDefaults(strategy) ==
    IF strategy = "emotional"
    THEN [present |-> TRUE, sticker_count |-> 20, sparkle_style |-> "pink"]
    ELSE [present |-> TRUE, sticker_count |-> 14, sparkle_style |-> "gold"]

\* getDefaultConfig(strategy) under the global configuration
GetDefaultConfig(global, strategy) ==
    LET g == IF strategy \in DOMAIN global THEN global[strategy] ELSE NoGlobal
    IN IF g.present
       THEN [present |-> TRUE,
             sticker_count |-> OrElse(g.sticker_count, 14),
             sparkle_style |-> OrElseStr(g.sparkle_style, "gold")]
       ELSE StrategyDefaults(strategy)

\* onSelectInput after its await: the scan reports the folders of `scan` with
\* their strategies, and initConfigs resets their configuration
OnSelectInput(scan) ==
    /\ configs' =
         [configs EXCEPT
            !.strategy = scan,
            !.config = [f \in Folders |->
                          IF scan[f] # NoCategory
                          THEN GetDefaultConfig(configs.global, scan[f])
                          ELSE @[f]],
            !.edited = [f \in Folders |-> IF scan[f] # NoCategory THEN {} ELSE @[f]],
            !.op = [NoOp EXCEPT !.kind = "scan"]]
    /\ UNCHANGED <<app, dataPanel, strategyConfig, phase, envCheck, header>>

\* !edited.has(key): a key the user edited is not overwritten
KeepsNothing(edited, key) == FALSE
Keeps(edited, key) == key \in edited

\* onUpdateStrategy(folder, strategy)
OnUpdateStrategy(folder, strategy) ==
    /\ configs' =
         IF folder \in Folders /\ configs.strategy[folder] # NoCategory
         THEN LET newDefaults == GetDefaultConfig(configs.global, strategy)
                  current == configs.config[folder]
              IN [configs EXCEPT
                    !.strategy[folder] = strategy,
                    !.config[folder] =
                        [present |-> TRUE,
                         sticker_count |->
                            IF Keeps(configs.edited[folder], "sticker_count")
                            THEN current.sticker_count
                            ELSE newDefaults.sticker_count,
                         sparkle_style |->
                            IF Keeps(configs.edited[folder], "sparkle_style")
                            THEN current.sparkle_style
                            ELSE newDefaults.sparkle_style],
                    !.op = [NoOp EXCEPT !.kind = "strategy", !.folder = folder,
                                        !.strategy = strategy]]
         ELSE [configs EXCEPT
                 !.op = [NoOp EXCEPT !.kind = "strategy", !.folder = folder,
                                     !.strategy = strategy]]
    /\ UNCHANGED <<app, dataPanel, strategyConfig, phase, envCheck, header>>

\* onUpdateConfig(folder, key, value)
OnUpdateConfig(folder, key, value) ==
    /\ configs' =
         IF folder \in Folders /\ configs.config[folder].present
         THEN [configs EXCEPT
                 !.config[folder][key] = value,
                 !.edited[folder] = @ \cup {key},
                 !.op = [NoOp EXCEPT !.kind = "config", !.folder = folder,
                                     !.key = key, !.value = value]]
         ELSE [configs EXCEPT
                 !.op = [NoOp EXCEPT !.kind = "config", !.folder = folder,
                                     !.key = key, !.value = value]]
    /\ UNCHANGED <<app, dataPanel, strategyConfig, phase, envCheck, header>>

\* onGlobalConfigSaved(cfg)
OnGlobalConfigSaved(cfg) ==
    /\ configs' = [configs EXCEPT !.global = cfg, !.op = [NoOp EXCEPT !.kind = "saved"]]
    /\ UNCHANGED <<app, dataPanel, strategyConfig, phase, envCheck, header>>

----------------------------------------------------------------------------
(* Specifications *)

\* the bounds of the exploration, on the inputs
Within(m) ==
    /\ m.type = "file_done" => Len(fileResults) < MaxResults
    /\ m.type = "file_log" => Len(logLines) < MaxLog

EventMsgs(names, pairs, results, statuses, lists, lines) ==
    FileStartMsgs(names, pairs) \cup FileLogMsgs(lines)
        \cup FileDoneMsgs(results, pairs) \cup FinishedMsgs(statuses, pairs)
        \cup CancelledMsgs \cup StateMsgs(names, pairs, statuses, lists)

\* one job is submitted and acknowledged with id t1
Submit ==
    \/ \E cats \in ScanChoices : categories = <<>> /\ OnCategoriesChanged(cats)
    \/ calls = <<>> /\ sockets = <<>> /\ StartClick
    \/ \E i \in 1..Len(calls) : FetchResolve(i)
    \/ \E i \in 1..Len(calls), d \in Responses : d.task_id = "t1" /\ JsonResolve(i, d)

FileA == "c/a.mp4"
FileB == "c/b.mp4"

\* Counters of one submitted job: every event type with every pair of
\* counters, about one file.
CountMsgs ==
    EventMsgs({FileA}, CountPairs, {Result(FileA, "done"), Result(FileA, "failed")},
              {"running", "completed"}, {<<>>}, {PlainLine})

Next ==
    \/ Submit
    \/ \E s \in 1..Len(sockets), m \in CountMsgs : Within(m) /\ OnMessage(s, m)

Spec == Init /\ [][Next]_vars

\* Status of one submitted job: every event type with every status, and the
\* malformed frames.
StatusMsgs ==
    EventMsgs({FileA}, {<<0, 0>>}, {Result(FileA, "done")}, Statuses, {<<>>},
              {PlainLine})
        \cup MalformedMsgs \cup UnknownMsgs

NextStatusEvents ==
    \/ Submit
    \/ \E s \in 1..Len(sockets), m \in StatusMsgs : Within(m) /\ OnMessage(s, m)

SpecStatus == Init /\ [][NextStatusEvents]_vars

\* History and rows of one submitted job: starts, log lines and results of
\* two files, a cancellation, and resyncs with every list of result records.
ResyncMsgs ==
    FileStartMsgs(FileNames, {<<0, 0>>}) \cup FileLogMsgs({PlainLine})
        \cup FileDoneMsgs(Results, {<<0, 0>>}) \cup CancelledMsgs
        \cup StateMsgs({FileB}, {<<MaxCount, 0>>}, {"running", "completed"},
                       SeqsUpTo(Results, MaxResync))

NextResync ==
    \/ Submit
    \/ \E s \in 1..Len(sockets), m \in ResyncMsgs : Within(m) /\ OnMessage(s, m)

SpecResync == Init /\ [][NextResync]_vars

\* The connections of the client: submissions that overlap, drops and
\* reconnects, reset and unmount, with the events that set the status.
ConnMsgs ==
    FinishedMsgs({"completed"}, {<<0, 0>>}) \cup CancelledMsgs
        \cup StateMsgs({}, {<<0, 0>>}, {"running", "completed"}, {<<>>})
ConnScan == <<Category("c", <<"a.mp4">>)>>
ConnResponses == {[task_id |-> id, total |-> 1] : id \in TaskIds}
\* the backend gives the first job the id t1 and every later one t2
FreshId == IF sockets = <<>> THEN "t1" ELSE "t2"

NextConn ==
    \/ categories = <<>> /\ OnCategoriesChanged(ConnScan)
    \/ Len(calls) < MaxCalls /\ StartClick
    \/ \E i \in 1..Len(calls) : FetchResolve(i)
    \/ \E i \in 1..Len(calls) : FetchReject(i)
    \/ \E i \in 1..Len(calls), d \in ConnResponses :
          /\ Len(sockets) < MaxSockets
          /\ d.task_id = FreshId
          /\ JsonResolve(i, d)
    \/ \E i \in 1..Len(calls) : JsonReject(i)
    \/ \E s \in 1..Len(sockets), m \in ConnMsgs : Within(m) /\ OnMessage(s, m)
    \/ \E s \in 1..Len(sockets) : OnClose(s)
    \/ \E t \in timers : Len(sockets) < MaxSockets /\ TimerFire(t)
    \/ Unmount
    \/ ResetTask

SpecConn == Init /\ [][NextConn]_vars

\* The progress estimate of one submitted job: two files, log lines that
\* announce a duration (12.5 s, 0 s) or carry a time marker (6.25 s, 12.5 s,
\* 1 min), and every event type.
PercentLines ==
    {PlainLine, DurLine(1250), DurLine(0), TimeLine(0, 0, 625),
     TimeLine(0, 0, 1250), TimeLine(0, 1, 0)}
PercentMsgs ==
    EventMsgs(FileNames, {<<0, 0>>}, {Result(FileA, "done")}, {"running", "completed"},
              {<<>>}, PercentLines)

NextPercent ==
    \/ Submit
    \/ \E s \in 1..Len(sockets), m \in PercentMsgs : Within(m) /\ OnMessage(s, m)

SpecPercent == Init /\ [][NextPercent]_vars

\* The log of one submitted job: the encoder's progress lines carry increasing
\* time stamps, one hundredth of a second apart, starting over with each file.
NextStamp == IF logLines = <<>> THEN 1 ELSE logLines[Len(logLines)].cs + 1
LogMsgs ==
    FileStartMsgs({FileA}, {<<0, 0>>}) \cup FileLogMsgs({TimeLine(0, 0, NextStamp)})
        \cup FileDoneMsgs({Result(FileA, "done")}, {<<0, 0>>})
        \cup StateMsgs({FileA}, {<<0, 0>>}, {"running"}, {<<>>})

NextLog ==
    \/ Submit
    \/ \E s \in 1..Len(sockets), m \in LogMsgs :
          /\ m.type = "file_done" => Len(fileResults) < MaxResults
          /\ m.type = "file_log" => NextStamp <= MaxStamp
          /\ OnMessage(s, m)

SpecLog == Init /\ [][NextLog]_vars

\* Submissions and their answers: rescans and changes of the variant count
\* while a submission awaits its answer, answers with and without a job id.
NextSubmit ==
    \/ \E cats \in ScanChoices : categories # cats /\ OnCategoriesChanged(cats)
    \/ \E n \in 1..MaxOutputs : n # Len(globalOutputs) /\ OnCountChange(n)
    \/ Len(calls) < MaxCalls /\ StartClick
    \/ \E i \in 1..Len(calls) : FetchResolve(i)
    \/ \E i \in 1..Len(calls) : FetchReject(i)
    \/ \E i \in 1..Len(calls), id \in TaskIds \cup {UndefinedStr} :
          /\ Len(sockets) < MaxSockets
          /\ JsonResolve(i, [task_id |-> id,
                             total |-> IF id = UndefinedStr THEN Undefined
                                       ELSE JobTotal(calls[i].body, calls[i].outputs)])
    \/ \E i \in 1..Len(calls) : JsonReject(i)

SpecSubmit == Init /\ [][NextSubmit]_vars

\* Uploads: picked file lists and selected folders (the example of the
\* documentation, a subfolder named like its parent, a deeper folder, and
\* folders whose names hold blanks and separators), every outcome of a request.
Videos == <<"v">>
Handwriting == <<"h">>
TreeExample ==
    Dir(Videos, <<Dir(Handwriting, <<File("a", "mp4"), File("b", "mp4")>>),
                  File("c", "mp4")>>)
TreeSameName == Dir(Videos, <<Dir(Videos, <<File("a", "mp4")>>), File("c", "mp4")>>)
TreeDeep ==
    Dir(Videos, <<Dir(Handwriting, <<Dir(<<"x">>, <<File("d", "MP4")>>),
                                     File("n", "txt")>>)>>)
RawNames == SeqsUpTo({"a", " ", "/", "\\"}, MaxName)
RootOnly(name) == Dir(name, <<File("a", "mp4")>>)
Trees == {TreeExample, TreeSameName, TreeDeep} \cup {RootOnly(n) : n \in RawNames}
FileLists ==
    { <<File("a", "mp4")>>,
      <<File("a", "mp4"), File("n", "txt"), File("b", "MP4")>> }

NextUpload ==
    \/ \E list \in FileLists :
          Len(uploads.batches) < MaxBatches /\ OnFileInputChange(list)
    \/ \E tree \in Trees :
          /\ uploads.tree = NoTree
          /\ Len(uploads.batches) + 2 <= MaxBatches
          /\ HandleDrop(tree)
    \/ \E tree \in Trees :
          /\ uploads.tree = NoTree
          /\ Len(uploads.batches) + 2 <= MaxBatches
          /\ OnFolderInputChange(tree)
    \/ \E b \in 1..Len(uploads.batches), outcome \in UploadOutcomes : Settle(b, outcome)
    \/ \E b \in 1..Len(uploads.batches) : Hang(b)

SpecUpload == Init /\ [][NextUpload]_vars

\* Cancellation of one submitted job: clicks on stop, the events that end
\* the job and resyncs, drops of the socket.
CancelMsgs ==
    FileStartMsgs({FileA}, {<<0, 0>>}) \cup FinishedMsgs({"completed"}, {<<0, 0>>})
        \cup CancelledMsgs
        \cup StateMsgs({FileA}, {<<0, 0>>}, {"running", "cancelled"}, {<<>>})

NextCancel ==
    \/ Submit
    \/ CancelTask
    \/ \E s \in 1..Len(sockets), m \in CancelMsgs : OnMessage(s, m)
    \/ \E s \in 1..Len(sockets) : OnClose(s)
    \/ \E t \in timers : Len(sockets) < MaxSockets /\ TimerFire(t)

SpecCancel == Init /\ [][NextCancel]_vars

\* One job of one file with the events that end it, the resyncs that report
\* its end, and drops of the socket.
StatsMsgs ==
    FileDoneMsgs({Result(FileA, "done"), Result(FileA, "failed")}, {<<MaxCount, 0>>})
        \cup FinishedMsgs({"completed", "failed"}, {<<MaxCount, 0>>})
        \cup StateMsgs({FileA}, {<<MaxCount, 0>>}, {"running", "completed"},
                       {<<>>, <<Result(FileA, "done")>>})

NextStats ==
    \/ Submit
    \/ \E s \in 1..Len(sockets), m \in StatsMsgs : Within(m) /\ OnMessage(s, m)
    \/ \E s \in 1..Len(sockets) : OnClose(s)
    \/ \E t \in timers : Len(sockets) < MaxSockets /\ TimerFire(t)

SpecStats == Init /\ [][NextStats]_vars

\* Edits and saves of one row of the data panel.
StatInputs == {<<>>, <<5>>, <<1, 2>>}

NextData ==
    \/ \E value \in StatInputs : OnStatChange(value)
    \/ SaveRow
    \/ \E i \in 1..Len(dataPanel.saves) : SaveResolve(i)
    \/ \E i \in 1..Len(dataPanel.saves) : SaveReject(i)

SpecData == Init /\ [][NextData]_vars

\* Edits and saves of the strategy page.
StickerCounts == {8}

NextStrategy ==
    \/ \E sid \in StrategyIds, val \in StickerCounts : SetVal(sid, val)
    \/ \E sid \in StrategyIds : Save(sid)
    \/ \E i \in 1..Len(strategyConfig.saves), outcome \in SaveOutcomes :
          SaveSettle(i, outcome)

SpecStrategy == Init /\ [][NextStrategy]_vars

\* The environment check: runs of the check with every answer of the
\* backend, installs of ffmpeg with every end of their socket, and the
\* button that enters the main UI.
Tools == {[installed |-> b] : b \in BOOLEAN}
Assets == {[exists |-> TRUE, count |-> 3], [exists |-> TRUE, count |-> 0],
           [exists |-> FALSE, count |-> 0]}
EnvData ==
    [ffmpeg : Tools, ffprobe : Tools, stickers : Assets, sparkles : Assets,
     whole : BOOLEAN]

NextEnv ==
    \/ OnMountedEnv
    \/ \E data \in EnvData : CheckResolve(data)
    \/ CheckReject
    \/ Ready
    \/ Len(envCheck.installs) < MaxInstalls /\ InstallFfmpeg
    \/ \E s \in 1..Len(envCheck.installs) :
          envCheck.output < MaxLog /\ OnInstallOutput(s)
    \/ \E s \in 1..Len(envCheck.installs), success \in BOOLEAN :
          (success => envCheck.runs < MaxChecks) /\ OnInstallDone(s, success)
    \/ \E s \in 1..Len(envCheck.installs) : OnInstallError(s)
    \/ \E s \in 1..Len(envCheck.installs) : OnInstallClose(s)

SpecEnv == Init /\ [][NextEnv]_vars

\* Every install socket ends: the backend reports done, the connection
\* fails, or the socket closes.
InstallEnds ==
    \E s \in 1..Len(envCheck.installs) :
        \/ \E success \in BOOLEAN :
              (success => envCheck.runs < MaxChecks) /\ OnInstallDone(s, success)
        \/ OnInstallError(s)
        \/ OnInstallClose(s)

SpecEnvFair == SpecEnv /\ WF_vars(InstallEnds)

\* The header: update checks, the panel and one git pull with every end of
\* its socket.
NextHeader ==
    \/ \E has \in BOOLEAN : UpdateChecked(has)
    \/ RecheckUpdate
    \/ \E has \in BOOLEAN : RecheckResolve(has)
    \/ RecheckReject
    \/ TogglePanel
    \/ ClosePanel
    \/ RunGitPull
    \/ \E s \in 1..Len(header.pulls) : header.output < MaxLog /\ OnPullOutput(s)
    \/ \E s \in 1..Len(header.pulls), success \in BOOLEAN, error \in BOOLEAN :
          OnPullDone(s, success, error)
    \/ \E s \in 1..Len(header.pulls) : OnPullError(s)
    \/ \E s \in 1..Len(header.pulls) : OnPullClose(s)

SpecHeader == Init /\ [][NextHeader]_vars

\* The per-category configuration: scans, strategy changes and edits of one
\* category (and of a folder no scan reported), saves of the global
\* configuration.
Scans == [Folders -> CategoryStrategies \cup {NoCategory}]
GlobalEntries ==
    { NoGlobal,
      [present |-> TRUE, sticker_count |-> Undefined, sparkle_style |-> UndefinedStr],
      [present |-> TRUE, sticker_count |-> 30, sparkle_style |-> "warm"] }
GlobalConfigs == [CategoryStrategies -> GlobalEntries]
Edits == {<<"sticker_count", 8>>, <<"sparkle_style", "cool">>}
AnyFolder == Folders \cup {"gone"}

NextConfigs ==
    \/ \E scan \in Scans : OnSelectInput(scan)
    \/ \E folder \in AnyFolder, strategy \in CategoryStrategies :
          OnUpdateStrategy(folder, strategy)
    \/ \E folder \in AnyFolder, e \in Edits : OnUpdateConfig(folder, e[1], e[2])
    \/ \E cfg \in GlobalConfigs : OnGlobalConfigSaved(cfg)

SpecConfigs == Init /\ [][NextConfigs]_vars

\* The output variants: every count typed into the count input (an empty
\* input parses to NaN) and changes of the fields of some rows.
AskedCounts == {NaN} \cup (0..MaxAsked)
EditedRows == {0, 1, 6}
FieldChanges == {<<"mode", "fast">>, <<"preset", "A">>}

NextOutputs ==
    \/ \E cats \in ScanChoices : categories = <<>> /\ OnCategoriesChanged(cats)
    \/ \E n \in AskedCounts : OnCountChange(n)
    \/ \E index \in EditedRows, c \in FieldChanges : OnOutputChange(index, c[1], c[2])

SpecOutputs == Init /\ [][NextOutputs]_vars

----------------------------------------------------------------------------
(* Properties of the tracker *)

\* the event just processed by ws.onmessage, if the last step was one
Received(type) == last.kind = "message" /\ last.msg.json /\ last.msg.type = type
Sum == JsAdd(completed, failed)

C2_ResyncOverwrites ==
    Received("state") =>
        /\ taskStatus = last.msg.status
        /\ completed = last.msg.completed
        /\ failed = last.msg.failed
        /\ fileResults = last.msg.file_results
        /\ currentFile = last.msg.current_file

\* a resync reporting a finished job with one result, received while a log
\* was being shown
C2_Witness ==
    /\ Received("state")
    /\ taskStatus = "completed"
    /\ completed = MaxCount
    /\ Len(fileResults) = 1
    /\ logLines # <<>>

C4_TerminalIsFinal ==
    [][(last'.kind = "message" /\ last'.msg.type # "state")
       => /\ taskStatus \in Terminal => taskStatus' = taskStatus
          /\ (taskStatus' \in Terminal /\ taskStatus \notin Terminal)
                => taskStatus = "running"]_vars

\* the rows of the panel in the current state
Rows == VideoList(fileResults, currentFile, allFiles)
Settled == {"done", "failed"}

\* C5 (as stated): once a row is shown as done or failed, no later event
\* shows it in another state.
C5_SettledRowsStay ==
    [][last'.kind = "message"
       => \A i \in 1..Len(allFiles) :
            Rows[i].status \in Settled => Rows'[i].status = Rows[i].status]_vars

\* C5 (amended): a row shown as done or failed keeps that status through
\* every file_start, file_log, finished and cancelled event and through every
\* file_done event whose record bears another name; only a state resync,
\* which replaces the history, or a later record with the row's own name,
\* which supersedes the earlier one, can change it.
C5_SettledRowsStayUnlessSuperseded ==
    [][(last'.kind = "message" /\ last'.msg.json)
       => \A i \in 1..Len(allFiles) :
            (/\ Rows[i].status \in Settled
             /\ last'.msg.type # "state"
             /\ ~(last'.msg.type = "file_done"
                    /\ last'.msg.result.filename \in {Rows[i].displayName, UndefinedStr}))
            => Rows'[i].status = Rows[i].status]_vars

\* a row still shown as done right after a file_start naming it
C5_Witness ==
    /\ Received("file_start")
    /\ \E i \in 1..Len(allFiles) :
        /\ Rows[i].status = "done"
        /\ currentFile = Rows[i].displayName

\* C9: a frame that is not valid JSON, or an event lacking the fields of its
\* type, leaves status, counts, current file, history and log as they were.
C9_MalformedIgnored ==
    [][(last'.kind = "message" /\ last'.msg \in MalformedMsgs)
       => UNCHANGED tracker]_vars

----------------------------------------------------------------------------
(* Properties of the connections *)

OpenSockets == {s \in 1..Len(sockets) : sockets[s].st = "open"}

\* socket s closes in this step
Closes(s) == sockets[s].st # "closed" /\ sockets'[s].st = "closed"

\* C6: when a socket closes while the status is "running", a connection for
\* the same job id is opened again after a fixed delay of 2 seconds, however
\* many times this has happened before; when it closes while the status is
\* anything else, nothing is scheduled. Only a close schedules a reconnect,
\* and a timeout that fires opens one socket for the id of the closed one.
C6_ReconnectWhileRunning ==
    [][/\ \A s \in 1..Len(sockets) :
            Closes(s) =>
                timers' = timers \cup
                    (IF taskStatus = "running"
                     THEN {[sock |-> s, id |-> sockets[s].id, delay |-> ReconnectDelay]}
                     ELSE {})
       /\ ~(timers' \subseteq timers) => \E s \in 1..Len(sockets) : Closes(s)
       /\ ~(timers \subseteq timers') =>
            \E t \in timers :
                /\ timers' = timers \ {t}
                /\ sockets' = Append(sockets, [id |-> t.id, st |-> "open"])]_vars

\* the third connection of the same job, after two drops while running
C6_Witness ==
    /\ timers = {}
    /\ taskStatus = "running"
    /\ Len(sockets) = 3
    /\ \A s \in 1..3 : sockets[s].id = "t1"
    /\ sockets[1].st = "closed"
    /\ sockets[2].st = "closed"
    /\ sockets[3].st = "open"

\* C7: once the App is unmounted no reconnection is scheduled or made.
C7_NoReconnectAfterUnmount ==
    [][~mounted' => timers' = timers]_vars

\* C8: at most one progress socket is open at any moment.
C8_AtMostOneConnection == Cardinality(OpenSockets) <= 1

----------------------------------------------------------------------------
(* Properties of the progress estimate *)

\* the percentage the panel displays
Percent == VideoPercent(taskStatus, currentFile, videoDuration, currentTime)

\* C10: while the status is "running" and a current file is set, the
\* percentage displayed is below 100; it is 0 as long as the panel holds no
\* parsed duration and min(99, round(time / duration * 100)) once it holds a
\* duration and a time position, the time position being
\* h * 3600 + m * 60 + s of the last time marker received.
C10_PercentWhileRunning ==
    (taskStatus = "running" /\ Truthy(currentFile) /\ PanelShown(mounted, taskId)) =>
        /\ Percent >= 0
        /\ Percent < 100
        /\ videoDuration = 0 => Percent = 0
        /\ (videoDuration > 0 /\ currentTime > 0) =>
              Percent = Min(99, (200 * currentTime + videoDuration) \div (2 * videoDuration))
        /\ (Received("file_log") /\ last.msg.line.h # Undefined) =>
              currentTime = 360000 * last.msg.line.h + 6000 * last.msg.line.m
                              + last.msg.line.cs
        /\ (Received("file_log") /\ last.msg.line.dur > 0) => videoDuration > 0

\* duration 12.5 s then time 6.25 s: 50 per cent
C10_Witness ==
    /\ taskStatus = "running"
    /\ Truthy(currentFile)
    /\ logLines = <<DurLine(1250), TimeLine(0, 0, 625)>>
    /\ videoDuration = 1250
    /\ currentTime = 625
    /\ Percent = 50

\* C11: once a file_done event for the current file has been processed, the
\* percentage displayed beside that file is exactly 100; a percentage below
\* 100 is displayed only for a file that has no result record yet.
C11_DoneShowsHundred ==
    PanelShown(mounted, taskId) =>
        /\ (/\ Received("file_done")
            /\ Truthy(currentFile)
            /\ last.msg.result.filename = currentFile) => Percent = 100
        /\ (Truthy(currentFile) /\ Percent < 100) =>
              ~HasResult(fileResults, currentFile)

\* C12: after every processed event the log buffer holds at most 200 lines;
\* a file_log event appends its line, and when that makes the buffer exceed
\* 200 lines it is cut to the most recent 150, kept in arrival order.
C12_LogBounded ==
    [][/\ Len(logLines') <= LogCap
       /\ (last'.kind = "message" /\ last'.msg.json /\ last'.msg.type = "file_log") =>
            LET all == Append(logLines, last'.msg.line)
            IN IF Len(all) > LogCap
               THEN /\ Len(logLines') = LogKeep
                    /\ \A i \in 1..LogKeep :
                          logLines'[i] = all[Len(all) - LogKeep + i]
               ELSE logLines' = all]_vars

\* the 201st line of a file has just arrived: lines 52 to 201 are kept
C12_Witness ==
    /\ Received("file_log")
    /\ Len(logLines) = LogKeep
    /\ logLines[1].cs = LogCap + 1 - LogKeep + 1
    /\ logLines[LogKeep].cs = LogCap + 1

----------------------------------------------------------------------------
(* Properties of the submission *)

\* a call of startTask ends in this step without a job id
SubmissionFails ==
    /\ Len(calls') < Len(calls)
    /\ (last'.kind # "submitted" \/ ~Truthy(taskId'))

\* C13: a submission that fails (request rejected, error answer, answer
\* without a job id) sets no job id, does not make the status "running",
\* leaves the tracked file list unchanged and opens no socket.
C13_FailedSubmissionNoEffect ==
    [][SubmissionFails =>
        UNCHANGED <<taskId, taskStatus, allFiles, sockets, ws>>]_vars

\* the rows of allFiles for variant v of file f of a category
RowsOf(files, c, f, v, count) ==
    {r \in 1..Len(files) :
        /\ files[r].folder = c.folder
        /\ files[r].filename = f
        /\ files[r].displayName = DisplayName(c.folder, f, v - 1, count)}

\* C14: when a submission succeeds, the job's total and the number of rows of
\* the tracked file list both equal the number of files of the submitted
\* categories times the number of output variants, with exactly one row per
\* (category, file, variant) and pairwise distinct display names.
C14_RowsMatchJob ==
    [][(last'.kind = "submitted" /\ Truthy(taskId')) =>
        \E i \in 1..Len(calls) :
            /\ calls' = RemoveAt(calls, i)
            /\ LET cats == calls[i].body
                   count == Len(calls[i].outputs)
                   n == JobTotal(cats, calls[i].outputs)
               IN /\ total' = n
                  /\ Len(allFiles') = n
                  /\ \A k \in 1..Len(cats) : \A j \in 1..Len(cats[k].files) :
                        \A v \in 1..count :
                            Cardinality(RowsOf(allFiles', cats[k], cats[k].files[j],
                                               v, count)) = 1
                  /\ \A a, b \in 1..Len(allFiles') :
                        allFiles'[a].displayName = allFiles'[b].displayName
                            => a = b]_vars

----------------------------------------------------------------------------
(* Properties of the uploads *)

Batches == uploads.batches
Failures == {"http_error", "network_error"}

\* C15: within one doUpload call the requests are sent one at a time in list
\* order; the request for a file is sent only when the requests of all the
\* files before it have settled, successfully or not.
C15_UploadsSequential ==
    \A b \in 1..Len(Batches) :
        /\ Len(Batches[b].sent) <= Len(Batches[b].files)
        /\ Batches[b].sent = SubSeq(Batches[b].files, 1, Len(Batches[b].sent))
        /\ Len(Batches[b].sent) <= Len(Batches[b].done) + 1

\* the second file's request is out after the first one failed
C15_Witness ==
    \E b \in 1..Len(Batches) :
        /\ Len(Batches[b].files) = 2
        /\ Len(Batches[b].sent) = 2
        /\ Batches[b].done = <<"http_error">>

\* C16: a failed upload (error status or network error) does not stop the
\* batch: the next file's request is sent at once or, after the last file,
\* categoriesChanged is emitted; it is emitted at most once per batch, and
\* exactly when every file of the batch has settled.
C16_FailureDoesNotStopBatch ==
    [][\A b \in 1..Len(Batches) :
        LET old == Batches[b]
            new == uploads'.batches[b]
        IN /\ new.emitted <= 1
           /\ new.emitted = 1 <=> Len(new.done) = Len(new.files)
           /\ (/\ Len(new.done) = Len(old.done) + 1
               /\ new.done[Len(new.done)] \in Failures) =>
                 IF Len(new.done) < Len(old.files)
                 THEN /\ new.sent = Append(old.sent, old.files[Len(old.sent) + 1])
                      /\ new.emitted = 0
                 ELSE new.emitted = 1]_vars

\* both uploads of a batch failed and categoriesChanged was emitted
C16_Witness ==
    \E b \in 1..Len(Batches) :
        /\ Batches[b].done = <<"network_error", "http_error">>
        /\ Len(Batches[b].files) = 2
        /\ Batches[b].emitted = 1

\* the group of a category holds the file
InGroup(groups, cat, f) ==
    \E i \in 1..Len(groups) :
        groups[i].cat = cat /\ \E j \in 1..Len(groups[i].files) : groups[i].files[j] = f

\* C17: of a selected or dropped folder, every video file lying in a
\* subfolder is in the category named after that subfolder and every video
\* file lying directly in the folder is in the category named after the folder.
C17_CategoryIsParentFolder ==
    uploads.tree.kind = "dir" =>
        LET list == Flatten(uploads.tree.entries, 1, <<uploads.tree.name>>)
        IN \A k \in 1..Len(list) :
            (IsVideo(list[k].file) /\ Len(list[k].folders) <= 2) =>
                InGroup(uploads.groups, list[k].folders[Len(list[k].folders)],
                        list[k].file)

\* C18: the category name of every upload request holds no slash or
\* backslash and is neither empty nor blank; a name that is empty or blank
\* after the separators were replaced is replaced by the default label.
C18_CategoryNameSafe ==
    \A b \in 1..Len(Batches) :
        LET cat == Batches[b].cat
        IN /\ cat # <<>>
           /\ \A i \in 1..Len(cat) : cat[i] \notin Separators
           /\ \E i \in 1..Len(cat) : cat[i] \notin Blanks
           /\ (\A i \in 1..Len(Batches[b].raw) : Batches[b].raw[i] \in Blanks)
                => cat = DefaultCategory

\* requests out for a blank folder name and for one holding a separator
C18_Witness ==
    \E b \in 1..Len(Batches) :
        /\ Batches[b].raw \in {<<" ">>, <<"/", "a">>}
        /\ Len(Batches[b].sent) = 1
        /\ Batches[b].raw = <<" ">> => Batches[b].cat = DefaultCategory
        /\ Batches[b].raw = <<"/", "a">> => Batches[b].cat = <<"_", "a">>

----------------------------------------------------------------------------
(* Properties of single events *)

\* C19: after every file_start event, whatever the current file was before,
\* the current file is the name the event carries, the log buffer is empty
\* and the progress estimate is reset: no duration, no time position, and a
\* displayed percentage of 0 while the job is running.
C19_FileStartResets ==
    (Received("file_start") /\ PanelShown(mounted, taskId)) =>
        /\ currentFile = last.msg.filename
        /\ logLines = <<>>
        /\ videoDuration = 0
        /\ currentTime = 0
        /\ taskStatus = "running" => Percent = 0

\* C20: a file_done event, for a file that succeeded or failed, appends the
\* result to the history and takes over the counts, and leaves the status,
\* the current file and the log buffer as they were.
C20_FileDoneFrame ==
    [][(last'.kind = "message" /\ last'.msg.json /\ last'.msg.type = "file_done") =>
        /\ fileResults' = Append(fileResults, last'.msg.result)
        /\ completed' = last'.msg.completed
        /\ failed' = last'.msg.failed
        /\ UNCHANGED <<taskStatus, currentFile, logLines>>]_vars

\* a failed file was recorded while its name and log stay on display
C20_Witness ==
    /\ Received("file_done")
    /\ last.msg.result.status = "failed"
    /\ taskStatus = "running"
    /\ currentFile = FileA
    /\ logLines # <<>>
    /\ fileResults # <<>>

C22_StatsRegisteredOnce ==
    [][LET ends == taskStatus \notin {"completed", "failed"}
                       /\ taskStatus' \in {"completed", "failed"}
       IN  /\ ends => last'.posted = RegisterVideoStats(fileResults', taskId')
           /\ last'.posted # NoBatch => ends]_vars

----------------------------------------------------------------------------
(* Properties of the data panel *)

\* C23: a row that is not marked dirty holds in memory the stats sent by its
\* last completed save, also when it was edited while a save was in flight.
C23_CleanMeansSaved ==
    ~dataPanel.dirty => dataPanel.stats = dataPanel.saved

\* the uploads a grouping leads to: each file with the category of its request
UploadsOf(groups) ==
    UNION { { <<SafeCat(groups[i].cat), groups[i].files[j]>> :
                j \in 1..Len(groups[i].files) } : i \in 1..Len(groups) }

\* C24: for the folder selected, the grouping of readDirectoryGrouped (drag
\* and drop, the rule of the directory picker) and the grouping of
\* onFolderInputChange upload the same video files under the same category
\* names, files nested more than one level below the folder included.
C24_FolderPathsAgree ==
    uploads.tree.kind = "dir" =>
        UploadsOf(ReadDirectoryGrouped(uploads.tree))
            = UploadsOf(GroupByPath(Flatten(uploads.tree.entries, 1,
                                            <<uploads.tree.name>>), 1, <<>>))

----------------------------------------------------------------------------
(* Properties of the strategy page *)

\* C25: after a save that failed (the backend refused it or the request
\* failed) the shared global configuration is as it was before that save and
\* no saved event was emitted for it.
C25_FailedSaveNoEffect ==
    strategyConfig.done.outcome \in {"refused", "error"} =>
        /\ strategyConfig.global = strategyConfig.done.before
        /\ ~strategyConfig.done.emitted

----------------------------------------------------------------------------
(* Properties of the environment check *)

\* C26: the phase changes only from env-check to main, and only in a state
\* where the four checks ffmpeg, ffprobe, stickers and sparkles are all ok.
C26_MainOnlyWhenAllOk ==
    [][phase' # phase =>
          /\ phase = "env-check" /\ phase' = "main"
          /\ envCheck.checks["ffmpeg"] = "ok" /\ envCheck.checks["ffprobe"] = "ok"
          /\ envCheck.checks["stickers"] = "ok"
          /\ envCheck.checks["sparkles"] = "ok"]_vars

\* C26 witness: the main UI was entered after a failed check, an install and
\* a second check.
C26_Witness ==
    phase = "main" /\ envCheck.installs # <<>>

\* C27: once installFfmpeg has started, installing becomes false again,
\* however the install socket ends.
C27_InstallingEnds ==
    envCheck.installing ~> ~envCheck.installing

----------------------------------------------------------------------------
(* Properties of the header *)

\* C28: the header shows the "updated, please refresh" text only after a git
\* pull that reported success.
C28_UpdatedOnlyAfterSuccess ==
    (~(header.hasUpdate /\ ~header.updateDone) /\ header.updateDone)
        => header.pullSuccess

----------------------------------------------------------------------------
(* Properties of the per-category configuration *)

\* C29: a strategy change of a scanned category sets every key the user has
\* not edited since the last scan to the default of the new strategy and
\* leaves every edited key at its value; an edit sets its key to the user's
\* value and marks it edited.
C29_StrategyKeepsEdits ==
    [][LET op == configs'.op
       IN  /\ (op.kind = "strategy" /\ op.folder \in Folders
                  /\ configs.strategy[op.folder] # NoCategory)
              => \A key \in ConfigKeys :
                    configs'.config[op.folder][key] =
                        IF key \in configs.edited[op.folder]
                        THEN configs.config[op.folder][key]
                        ELSE GetDefaultConfig(configs.global, op.strategy)[key]
           /\ (op.kind = "config" /\ op.folder \in Folders
                  /\ configs.config[op.folder].present)
              => /\ configs'.config[op.folder][op.key] = op.value
                 /\ op.key \in configs'.edited[op.folder]]_vars

\* C29 witness: a strategy change to emotional kept an edited sticker count
\* and moved the unedited sparkle style to the new default.
C29_Witness ==
    /\ configs.op.kind = "strategy" /\ configs.op.folder = "f"
    /\ configs.op.strategy = "emotional"
    /\ configs.edited["f"] = {"sticker_count"}
    /\ configs.config["f"].sticker_count = 8
    /\ configs.config["f"].sparkle_style = "pink"

----------------------------------------------------------------------------
(* Properties of the output variants *)

\* C30: over count changes and field changes the output-variant list has
\* between 1 and 10 entries; a step that lengthens it keeps the old list as a
\* prefix and gives the new entry at index i mode standard and preset
\* PRESET_ORDER[i mod 5]; a step that shortens it keeps the first entries.
C30_OutputsBounded ==
    [][/\ Len(globalOutputs) \in 1..10
       /\ Len(globalOutputs') \in 1..10
       /\ Len(globalOutputs') > Len(globalOutputs) =>
            /\ SubSeq(globalOutputs', 1, Len(globalOutputs)) = globalOutputs
            /\ \A i \in Len(globalOutputs)..(Len(globalOutputs') - 1) :
                  globalOutputs'[i + 1] =
                      [mode |-> "standard", preset |-> PresetOrder[(i % 5) + 1]]
       /\ Len(globalOutputs') < Len(globalOutputs) =>
            globalOutputs' = SubSeq(globalOutputs, 1, Len(globalOutputs'))]_vars

\* C30 witness: a list grown to ten entries around an edited first row, the
\* presets having wrapped around PRESET_ORDER.
C30_Witness ==
    /\ Len(globalOutputs) = 10
    /\ globalOutputs[1].mode = "fast"
    /\ globalOutputs[7] = [mode |-> "standard", preset |-> "C"]
    /\ globalOutputs[10] = [mode |-> "standard", preset |-> "A"]

=============================================================================
